---- MODULE Spec2Model ----
(***************************************************************************)
(* nuxt-use-async-data-wrapper: useAsyncDataWrapper(obj) reflects over an  *)
(* object's methods and returns one wrapper per method; each wrapper call  *)
(* hands a key, a thunk and a configuration to Nuxt's useAsyncData.        *)
(*                                                                         *)
(* Two implementations of useAsyncDataWrapper are in the repository: the   *)
(* chain-walking one (getFunctionNames and the three getWrapped* helpers)  *)
(* and the one of src/index.ts, which reads the names of the object's      *)
(* direct prototype only.  Their wrappers are the same code.               *)
(*                                                                         *)
(* JavaScript values are modelled by what the code reads of them: a member *)
(* of an object by its typeof and, for a function, its declared parameter  *)
(* count; strings are TLA+ strings, so that key concatenation is real.     *)
(***************************************************************************)
EXTENDS Integers, Sequences, FiniteSets, TLC

VARIABLES obj, pc, impl, composable, id, calls, log, data, invoked

vars == <<obj, pc, impl, composable, id, calls, log, data, invoked>>

(***************************************************************************)
(* Bounds of the model.                                                    *)
(***************************************************************************)
\* Longest prototype chain below Object.prototype (the object itself counts).
MaxDepth == 2
\* Most wrapper invocations in one behaviour.
MaxCalls == 2

(***************************************************************************)
(* Objects.  A source object is its prototype chain: obj[1] is the object  *)
(* itself, obj[i+1] the prototype of obj[i], and the prototype of the last *)
(* level is Object.prototype.  A level maps its own property names to the  *)
(* kind of value they hold.                                                *)
(***************************************************************************)
\* Member names a caller defines.  "g-[5]" is a legal property name.
Names == {"g", "g-[5]", "constructor"}

\* "fn0" / "fn1": a function declaring zero / one parameter; "data": any
\* value that is not a function.
Kinds == {"fn0", "fn1", "data"}

\* Own properties of Object.prototype that the code can see
\* (Object.getOwnPropertyNames(Object.prototype), a representative part).
ObjectPrototype ==
    [n \in {"constructor", "toString", "hasOwnProperty", "__proto__"} |->
        IF n = "__proto__" THEN "data" ELSE "fn1"]

\* A class prototype carries its constructor function; a level may also
\* carry no constructor, never a data-valued one here.
Levels ==
    UNION { [S -> Kinds] : S \in SUBSET (Names \ {"constructor"}) }
    \cup UNION { { l @@ ("constructor" :> "fn0") : l \in [S -> Kinds] }
                 : S \in SUBSET (Names \ {"constructor"}) }

Chains == UNION { [1..d -> Levels] : d \in 1..MaxDepth }

\* Object.getOwnPropertyNames(level)
GetOwnPropertyNames(level) == DOMAIN level

\* Object.getPrototypeOf of level i of chain c: the index of the next level,
\* Len(c)+1 standing for Object.prototype.
LevelAt(c, i) == IF i <= Len(c) THEN c[i] ELSE ObjectPrototype

\* currentObj[key]: property lookup starting at level i of chain c, through
\* the prototype chain up to and including Object.prototype.
RECURSIVE Get(_, _, _)
Get(c, i, key) ==
    IF i > Len(c) + 1 THEN "undefined"
    ELSE IF key \in DOMAIN LevelAt(c, i) THEN LevelAt(c, i)[key]
    ELSE Get(c, i + 1, key)

\* typeof value === 'function'
TypeofFunction(v) == v \in {"fn0", "fn1"}

(***************************************************************************)
(* Chain-walking implementation.                                           *)
(***************************************************************************)
\* getFunctionNames: while (currentObj && currentObj !== Object.prototype),
\* add every own key that is not 'constructor' and whose value, read on
\* currentObj, is a function.  The Set is kept as a set: no claim reads the
\* insertion order.
RECURSIVE GetFunctionNamesFrom(_, _)
GetFunctionNamesFrom(c, i) ==
    IF i > Len(c) THEN {}
    ELSE { key \in GetOwnPropertyNames(c[i]) :
             key # "constructor" /\ TypeofFunction(Get(c, i, key)) }
         \cup GetFunctionNamesFrom(c, i + 1)

GetFunctionNames(c) == GetFunctionNamesFrom(c, 1)

\* obj[functionName].bind(obj) throws a TypeError when obj[functionName],
\* read on the object itself, is not a function.
BindThrows(c, functionName) == ~TypeofFunction(Get(c, 1, functionName))

\* useAsyncDataWrapper of the chain-walking implementation: the loop binds
\* each discovered name on obj; the first name that does not bind throws
\* and no composable is returned.
WrapChain(c) ==
    LET functionNames == GetFunctionNames(c) IN
    IF \E n \in functionNames : BindThrows(c, n)
    THEN [threw |-> TRUE, keys |-> {}]
    ELSE [threw |-> FALSE, keys |-> functionNames]

(***************************************************************************)
(* src/index.ts implementation.                                            *)
(***************************************************************************)
\* functionNames = Object.getOwnPropertyNames(Object.getPrototypeOf(obj))
\*   .filter(key => key !== 'constructor' && typeof obj[key] === 'function')
IndexFunctionNames(c) ==
    { key \in GetOwnPropertyNames(LevelAt(c, 2)) :
        key # "constructor" /\ TypeofFunction(Get(c, 1, key)) }

\* every name kept by the filter is a function on obj, so bind never throws
WrapIndex(c) ==
    LET functionNames == IndexFunctionNames(c) IN
    IF \E n \in functionNames : BindThrows(c, n)
    THEN [threw |-> TRUE, keys |-> {}]
    ELSE [threw |-> FALSE, keys |-> functionNames]

(***************************************************************************)
(* Wrapper calls.                                                          *)
(***************************************************************************)
\* JavaScript values an argument can take: a number, null, undefined.
Num(n) == [t |-> "number", n |-> n]
Null == [t |-> "null", n |-> 0]
Undefined == [t |-> "undefined", n |-> 0]
Values == {Num(5), Null, Undefined}

\* JSON.stringify of one element of an array: a number prints in decimal,
\* null prints as null, and undefined inside an array prints as null too.
JsonElement(v) ==
    CASE v.t = "number" -> ToString(v.n)
      [] v.t = "null" -> "null"
      [] v.t = "undefined" -> "null"

RECURSIVE JsonJoin(_)
JsonJoin(a) ==
    IF Len(a) = 0 THEN ""
    ELSE IF Len(a) = 1 THEN JsonElement(a[1])
    ELSE JsonElement(a[1]) \o "," \o JsonJoin(Tail(a))

\* JSON.stringify(argsRef.value) for an argument array
JSONstringify(a) == "[" \o JsonJoin(a) \o "]"

\* A variant of DataKey that leaves the arguments out of the key.
DataKeyNameOnly(functionName, args) == functionName

\* dataKeyRef: `${functionName}-${JSON.stringify(argsRef.value)}`
DataKey(functionName, args) == functionName \o "-" \o JSONstringify(args)

\* An AsyncDataOptions object, by slot: whether the caller's object has the
\* slot and the value it holds.  Two slots stand for all of them: lazy (an
\* opaque flag) and watch (a list of reactive dependencies, kept as a set).
LazySlots == {[set |-> FALSE, v |-> FALSE], [set |-> TRUE, v |-> TRUE]}
WatchSlots == {[set |-> FALSE, v |-> {}], [set |-> TRUE, v |-> {"customRef"}]}
Options == [lazy : LazySlots, watch : WatchSlots]
\* options left out (undefined) spreads to nothing, like {}
NoOptions == [lazy |-> [set |-> FALSE, v |-> FALSE], watch |-> [set |-> FALSE, v |-> {}]]

\* A variant of MergeConfig with the spread first: { ...options, watch: [argsRef] }.
MergeConfigSpreadFirst(defaults, options) ==
    [lazy |-> IF defaults.lazy.set THEN defaults.lazy ELSE options.lazy,
     watch |-> IF defaults.watch.set THEN defaults.watch ELSE options.watch]

\* { watch: [argsRef], ...options } and { ...options }: a slot of options,
\* spread last, replaces the slot written before it.
MergeConfig(defaults, options) ==
    [lazy |-> IF options.lazy.set THEN options.lazy ELSE defaults.lazy,
     watch |-> IF options.watch.set THEN options.watch ELSE defaults.watch]

\* the object literal's own entry on the parameterized path: watch: [argsRef]
WatchArgsRef == [lazy |-> [set |-> FALSE, v |-> FALSE], watch |-> [set |-> TRUE, v |-> {"argsRef"}]]

\* Call-site arguments.  An argsSupplier is a function reading the reactive
\* ref id (() => [id.value]), or one that throws when invoked.
Suppliers == {"idRef", "throws"}
UndefArg == [t |-> "undefined", o |-> NoOptions, s |-> "none"]
OptArg(o) == [t |-> "object", o |-> o, s |-> "none"]
FnArg(s) == [t |-> "function", o |-> NoOptions, s |-> s]

\* w(), w(options), w(argsSupplier), w(argsSupplier, options)
CallArgs ==
    {<<>>} \cup {<<OptArg(o)>> : o \in Options}
    \cup {<<FnArg(s)>> : s \in Suppliers}
    \cup {<<FnArg(s), OptArg(o)>> : s \in Suppliers, o \in Options}

\* args[i] of a rest-parameter array (zero-based i): undefined past its end
ArgAt(args, i) == IF i + 1 <= Len(args) THEN args[i + 1] ELSE UndefArg

\* argsSupplier(): the current argument list, or a throw
ArgsSupplier(s, idv) ==
    [threw |-> s # "idRef", value |-> IF s = "idRef" THEN <<idv>> ELSE <<>>]

\* A variant of GetWrappedFunction that dispatches on originalFunction.length.
GetWrappedFunctionByLength(functionName, originalFunction, args) ==
    IF originalFunction = "fn0" THEN "withoutArgs" ELSE "withArgs"

\* getWrappedFunction's closure: typeof args[0] === 'function' selects
\* getWrappedFunctionWithArgs, anything else getWrapedFunctionWithoutArgs.
\* originalFunction is in scope and not read.
GetWrappedFunction(functionName, originalFunction, args) ==
    IF ArgAt(args, 0).t = "function" THEN "withArgs" ELSE "withoutArgs"

\* A variant of GetWrappedFunctionWithArgs that swallows a throwing supplier
\* and registers under the bare name.
GetWrappedFunctionWithArgsCatching(functionName, argsSupplier, options, idv) ==
    LET r == ArgsSupplier(argsSupplier, idv) IN
    [threw |-> FALSE, registers |-> TRUE,
     key |-> IF r.threw THEN functionName ELSE functionName \o "-" \o JSONstringify(r.value),
     args |-> r.value,
     config |-> [lazy |-> options.lazy,
                 watch |-> IF options.watch.set THEN options.watch
                           ELSE [set |-> TRUE, v |-> {"argsRef"}]]]

\* getWrappedFunctionWithArgs up to the useAsyncData call: the arguments of
\* useAsyncData are evaluated first, dataKeyRef.value runs argsSupplier, and
\* a throw there leaves before useAsyncData is entered.
GetWrappedFunctionWithArgs(functionName, argsSupplier, options, idv) ==
    LET r == ArgsSupplier(argsSupplier, idv) IN
    IF r.threw
    THEN [threw |-> TRUE, registers |-> FALSE, key |-> "", args |-> <<>>,
          config |-> NoOptions]
    ELSE [threw |-> FALSE, registers |-> TRUE,
          key |-> DataKey(functionName, r.value), args |-> r.value,
          config |-> MergeConfig(WatchArgsRef, options)]

\* getWrapedFunctionWithoutArgs: useAsyncData(functionName, thunk, {...options})
GetWrapedFunctionWithoutArgs(functionName, options) ==
    [threw |-> FALSE, registers |-> TRUE, key |-> functionName, args |-> <<>>,
     config |-> MergeConfig(NoOptions, options)]

(***************************************************************************)
(* useAsyncData, as far as the wrappers depend on it: it keeps the call    *)
(* (key, thunk, configuration), runs the thunk at once, holds the thunk's  *)
(* result under the key it was given, and runs the thunk again when a      *)
(* dependency listed in the configuration's watch changes.                 *)
(***************************************************************************)
\* the thunk: originalFunction(...unref(argsRef)) with the supplier's
\* current result, or originalFunction() on the simple path
ThunkArgs(call, idv) ==
    IF call.path = "withArgs" THEN ArgsSupplier(call.supplier, idv).value ELSE <<>>

\* the result of originalFunction(...args) is held under key
Store(d, key, fn, args) ==
    {e \in d : e.key # key} \cup {[key |-> key, fn |-> fn, args |-> args]}

\* the configuration's watch lists dep
Triggered(call, dep) == call.config.watch.set /\ dep \in call.config.watch.v

\* a change of dep: every call watching it runs its thunk again, in order
RECURSIVE Rerun(_, _, _, _, _, _)
Rerun(cs, d, inv, i, dep, idv) ==
    IF i > Len(cs) THEN [calls |-> cs, data |-> d, invoked |-> inv]
    ELSE IF Triggered(cs[i], dep)
    THEN LET a == ThunkArgs(cs[i], idv) IN
         Rerun([cs EXCEPT ![i].lastArgs = a], Store(d, cs[i].key, cs[i].fn, a),
               inv \cup {cs[i].fn}, i + 1, dep, idv)
    ELSE Rerun(cs, d, inv, i + 1, dep, idv)

(***************************************************************************)
(* The state machine.                                                      *)
(***************************************************************************)
\* Source of the call behaviours: an instance of a class whose prototype
\* declares g(x) and a zero-parameter method named "g-[5]".
ServiceObjects ==
    { << <<>>, [g |-> "fn1", constructor |-> "fn0"] @@ ("g-[5]" :> "fn0") >> }

Start ==
    /\ pc = "start"
    /\ impl = "none"
    /\ composable = {}
    /\ id = Num(5)
    /\ calls = <<>>
    /\ log = <<>>
    /\ data = {}
    /\ invoked = {}

Init == obj \in ServiceObjects /\ Start

InitWrap == obj \in Chains /\ Start

\* useAsyncDataWrapper(obj), chain-walking implementation
UseAsyncDataWrapper ==
    /\ pc = "start"
    /\ LET r == WrapChain(obj) IN
       /\ pc' = IF r.threw THEN "threw" ELSE "wrapped"
       /\ composable' = r.keys
    /\ impl' = "chain"
    /\ UNCHANGED <<obj, id, calls, log, data, invoked>>

\* useAsyncDataWrapper(obj), src/index.ts
UseAsyncDataWrapperIndex ==
    /\ pc = "start"
    /\ LET r == WrapIndex(obj) IN
       /\ pc' = IF r.threw THEN "threw" ELSE "wrapped"
       /\ composable' = r.keys
    /\ impl' = "index"
    /\ UNCHANGED <<obj, id, calls, log, data, invoked>>

\* composable[functionName](...args)
Wrapper(functionName, args) ==
    /\ pc = "wrapped"
    /\ functionName \in composable
    /\ Len(log) < MaxCalls
    /\ LET originalFunction == Get(obj, 1, functionName)
           path == GetWrappedFunction(functionName, originalFunction, args)
           out == IF path = "withArgs"
                  THEN GetWrappedFunctionWithArgs(functionName, ArgAt(args, 0).s,
                                                  ArgAt(args, 1).o, id)
                  ELSE GetWrapedFunctionWithoutArgs(functionName, ArgAt(args, 0).o)
           options == IF path = "withArgs" THEN ArgAt(args, 1).o ELSE ArgAt(args, 0).o
       IN
       /\ log' = Append(log, [fn |-> functionName, first |-> ArgAt(args, 0).t,
                              supplier |-> ArgAt(args, 0).s,
                              declared |-> originalFunction,
                              args |-> IF ArgAt(args, 0).s = "idRef" THEN <<id>> ELSE <<>>,
                              threw |-> out.threw,
                              reg |-> IF out.registers THEN Len(calls) + 1 ELSE 0])
       /\ IF out.registers
          THEN /\ calls' = Append(calls, [fn |-> functionName, path |-> path,
                                          key |-> out.key, options |-> options,
                                          config |-> out.config,
                                          supplier |-> ArgAt(args, 0).s,
                                          lastArgs |-> out.args])
               /\ data' = Store(data, out.key, functionName, out.args)
               /\ invoked' = invoked \cup {functionName}
          ELSE UNCHANGED <<calls, data, invoked>>
    /\ UNCHANGED <<obj, pc, impl, composable, id>>

\* id.value = v: argsRef is recomputed and the calls watching it run again
SetId(v) ==
    /\ pc = "wrapped"
    /\ v # id
    /\ id' = v
    /\ LET r == Rerun(calls, data, invoked, 1, "argsRef", v) IN
       /\ calls' = r.calls
       /\ data' = r.data
       /\ invoked' = r.invoked
    /\ UNCHANGED <<obj, pc, impl, composable, log>>

\* a change of the caller's own watched ref; the wrappers never read its
\* value, so only the change is modelled
SetCustomRef ==
    /\ pc = "wrapped"
    /\ LET r == Rerun(calls, data, invoked, 1, "customRef", id) IN
       /\ calls' = r.calls
       /\ data' = r.data
       /\ invoked' = r.invoked
    /\ UNCHANGED <<obj, pc, impl, composable, id, log>>

NextWrap == UseAsyncDataWrapper \/ UseAsyncDataWrapperIndex

Next ==
    \/ UseAsyncDataWrapper
    \/ UseAsyncDataWrapperIndex
    \/ \E functionName \in Names, args \in CallArgs : Wrapper(functionName, args)
    \/ \E v \in Values : SetId(v)
    \/ SetCustomRef

Spec == Init /\ [][Next]_vars

SpecWrap == InitWrap /\ [][NextWrap]_vars

(***************************************************************************)
(* Properties of useAsyncDataWrapper(obj), checked under SpecWrap.         *)
(***************************************************************************)
\* names defined on the object or on a prototype below Object.prototype
DefinedNames(c) == UNION { DOMAIN c[i] : i \in 1..Len(c) }

\* the names n # 'constructor' for which obj[n] is a function
FunctionMembers(c) ==
    { n \in DefinedNames(c) : n # "constructor" /\ TypeofFunction(Get(c, 1, n)) }

\* C1: the chain-walking useAsyncDataWrapper returns an object whose keys
\* are exactly the names n # 'constructor' for which source[n], resolved
\* through the prototype chain, is a function.
C1_KeysAreFunctionMembers ==
    (impl = "chain") => (pc = "wrapped" /\ composable = FunctionMembers(obj))

\* C5: the chain-walking useAsyncDataWrapper raises no exception for any
\* source object and invokes none of its functions while wrapping.
C5_WrapNeverThrows ==
    (impl = "chain") => (pc # "threw" /\ (log = <<>> => invoked = {}))

\* C8: the useAsyncDataWrapper of src/index.ts returns an object with the
\* same function names as the original: every own or inherited function
\* member, and no name the caller did not define.
C8_IndexKeysAreFunctionMembers ==
    (impl = "index") => (pc = "wrapped" /\ composable = FunctionMembers(obj))

(***************************************************************************)
(* Properties of the wrapper calls, checked under Spec.                    *)
(***************************************************************************)
\* the invocations that returned, and the registered call of each
Returned == { i \in DOMAIN log : ~log[i].threw }
Registered == { i \in DOMAIN log : log[i].reg # 0 }
CallOf(i) == calls[log[i].reg]

\* The key a call is meant to carry, written out for the argument lists of
\* the model: the bare name without an argsSupplier, and the name, a dash
\* and the JSON text of the one-element list otherwise.
ExpectedJson(a) ==
    CASE a = <<Num(5)>> -> "[5]"
      [] a = <<Null>> -> "[null]"
      [] a = <<Undefined>> -> "[null]"
      [] a = <<>> -> "[]"

ExpectedKey(e) ==
    IF e.first = "function"
    THEN CASE e.fn = "g" -> "g-" \o ExpectedJson(e.args)
           [] e.fn = "g-[5]" -> "g-[5]-" \o ExpectedJson(e.args)
    ELSE e.fn

\* C2 as stated: every invocation of a wrapper registers exactly one call,
\* and its key is the bare name without an argsSupplier and the name, a
\* dash and the serialized arguments of the call time otherwise.
C2_EveryInvocationRegisters ==
    /\ Len(calls) = Len(log)
    /\ \A i \in DOMAIN log :
         /\ log[i].reg \in 1..Len(calls)
         /\ CallOf(i).key = ExpectedKey(log[i])

\* C2 amended: every invocation that returns registers exactly one call,
\* with that key; an invocation whose argsSupplier throws registers none.
C2_ReturnedInvocationRegisters ==
    /\ \A i \in DOMAIN log :
         IF log[i].threw
         THEN log[i].reg = 0
         ELSE /\ log[i].reg \in 1..Len(calls)
              /\ CallOf(i).key = ExpectedKey(log[i])
    /\ \A j \in 1..Len(calls) : Cardinality({ i \in Returned : log[i].reg = j }) = 1

\* a parameterized call returned and another invocation threw
C2_Witness ==
    /\ \E i \in Returned : log[i].first = "function" /\ CallOf(i).key = "g-[null]"
    /\ \E i \in DOMAIN log : log[i].threw

\* C3: whatever options the caller passes, the configuration of a
\* parameterized call watches the argsSupplier dependency, so the thunk has
\* run with the current argument list after every change of it.
C3_ArgsRefAlwaysWatched ==
    \A j \in 1..Len(calls) :
        calls[j].path = "withArgs" =>
            /\ Triggered(calls[j], "argsRef")
            /\ calls[j].lastArgs = <<id>>

\* C4: the configuration handed to useAsyncData holds the caller's value in
\* every slot the caller supplied, and on the simple path it is the
\* caller's options with nothing added.
C4_CallerSlotsKept ==
    \A j \in 1..Len(calls) :
        /\ calls[j].options.lazy.set => calls[j].config.lazy = calls[j].options.lazy
        /\ calls[j].options.watch.set => calls[j].config.watch = calls[j].options.watch
        /\ calls[j].path = "withoutArgs" => calls[j].config = calls[j].options

\* a parameterized call made with options { watch: [customRef] }
C4_Witness ==
    \E j \in 1..Len(calls) :
        /\ calls[j].path = "withArgs"
        /\ calls[j].options.watch.set
        /\ "customRef" \in calls[j].config.watch.v

\* C6 as stated: the path a call takes is fixed by the declared parameter
\* count of the original function: zero, simple; one or more, parameterized.
C6_PathFixedByDeclaredCount ==
    \A i \in Registered :
        CallOf(i).path = IF log[i].declared = "fn0" THEN "withoutArgs" ELSE "withArgs"

\* C6 amended: the path a call takes is decided at the call by whether its
\* first argument is a function, whatever the declared parameter count.
C6_PathFollowsFirstArgument ==
    \A i \in Registered :
        CallOf(i).path = IF log[i].first = "function" THEN "withArgs" ELSE "withoutArgs"

\* the wrapper of a zero-parameter function took the parameterized path on
\* one call and the simple path on another
C6_Witness ==
    /\ \E i \in Registered : log[i].declared = "fn0" /\ CallOf(i).path = "withArgs"
    /\ \E i \in Registered : log[i].declared = "fn0" /\ CallOf(i).path = "withoutArgs"

\* C7: when argsSupplier throws in a wrapper call, the call throws, no call
\* is registered with useAsyncData and the original function is not run.
C7_ThrowRegistersNothing ==
    [][(Len(log') = Len(log) + 1 /\ log'[Len(log')].supplier = "throws") =>
         /\ log'[Len(log')].threw
         /\ log'[Len(log')].reg = 0
         /\ calls' = calls
         /\ data' = data
         /\ invoked' = invoked]_vars

\* a wrapper call whose argsSupplier threw
C7_Witness ==
    \E i \in DOMAIN log : log[i].supplier = "throws" /\ log[i].threw /\ log[i].reg = 0

\* C9: the key under which a parameterized call's result is held is always
\* the name, a dash and the serialization of the arguments of the most
\* recent thunk execution.
C9_KeyTracksLastArgs ==
    /\ \A j \in 1..Len(calls) :
         calls[j].path = "withArgs" =>
             calls[j].key = calls[j].fn \o "-" \o ExpectedJson(calls[j].lastArgs)
    /\ \A e \in data :
         Len(e.args) > 0 => e.key = e.fn \o "-" \o ExpectedJson(e.args)

\* C10: two invocations pass equal keys only if they are for the same
\* function name, the same call shape and the same argument list.
C10_KeysCollisionFree ==
    \A i, j \in Registered :
        CallOf(i).key = CallOf(j).key =>
            /\ log[i].fn = log[j].fn
            /\ (log[i].first = "function") = (log[j].first = "function")
            /\ log[i].args = log[j].args

====
